---- MODULE Spec2Model ----
(***************************************************************************)
(* Model of the embedded-interpreter bootstrap (embedded_main.cpp) and of  *)
(* the static-extension loader (static_extension_utils.cpp).               *)
(*                                                                         *)
(* Two specifications:                                                     *)
(*   Spec      the loader: create_module / exec_module calls made by the   *)
(*             host runtime's import system, serialized, possibly nested   *)
(*             (an init function may import another static extension).    *)
(*   SpecMain  the launcher: main() of embedded_main.cpp, step by step.    *)
(*                                                                         *)
(* The host runtime (CPython) is an external collaborator: each call into  *)
(* it is modelled at its call site by the outcomes the calling code        *)
(* distinguishes (success / failure), chosen nondeterministically.         *)
(***************************************************************************)
EXTENDS Integers, Sequences, FiniteSets, TLC

(* ----------------------------- bounds --------------------------------- *)
\* module objects the runtime may allocate in one run
MaxObjs == 2
\* init-function invocations in one run
MaxInit == 3
\* nesting depth of create_module invocations
MaxDepth == 2

(* --------------------------- value domains ---------------------------- *)
\* a null C string / absent attribute
NULL == "NULL"

\* extension names a Module Spec may carry (spec.name)
Names == {"", "mathx", "defx", "nodef", "missing"}

\* spec.origin: a text value, or NULL when the spec has no origin attribute
Origins == {NULL, "/par/mathx.so"}

\* no __file__ attribute on a module
NoFile == "NoFile"

\* no pending error
NoErr == "none"

\* what an init function may leave pending when it returns null: an error of
\* its choosing, or (against the protocol) none
InitErrors == {"ImportError", "RuntimeError", NoErr}

\* null function pointer
NullInit == "nullptr"

\* the static name -> init-function table, as the link step may produce it
RegistryFull ==
    [n \in {"mathx", "defx", "nodef"} |->
        CASE n = "mathx" -> "init_mathx"
          [] n = "defx"  -> "init_defx"
          [] OTHER       -> "init_nodef"]

RegistryEmpty == [n \in {} |-> NullInit]

RegistryChoices == {RegistryEmpty, RegistryFull}

InitFuncs == {"init_mathx", "init_defx", "init_nodef"}

\* what each init function returns when it succeeds:
\*   "legacy" a module object that has a definition,
\*   "def"    a module-definition value (multi-phase init),
\*   "nodef"  a module object without a definition
InitKind(f) ==
    CASE f = "init_mathx" -> "legacy"
      [] f = "init_defx"  -> "def"
      [] OTHER            -> "nodef"

\* the PyModuleDef an extension owns
DefOf(f) ==
    CASE f = "init_mathx" -> "D_mathx"
      [] f = "init_defx"  -> "D_defx"
      [] OTHER            -> "NoDef"

DefIds == {"D_mathx", "D_defx"}

(* object references: PyObject* *)
NullRef == [tag |-> "null", obj |-> 0, def |-> "NoDef"]
ModRef(i) == [tag |-> "module", obj |-> i, def |-> "NoDef"]
DefRef(d) == [tag |-> "def", obj |-> 0, def |-> d]

(* PyStatus: ok, an error without exit code, or an exit with a code *)
StatusOk == [kind |-> "ok", code |-> 0]
StatusError == [kind |-> "error", code |-> 0]
StatusExit(c) == [kind |-> "exit", code |-> c]

\* no exec_module call has returned a result that is still to be taken
NoExec == [arg |-> NullRef, ret |-> "NoCall", err |-> NoErr, ran |-> FALSE]

(* an argument of _check_module / _get_source: a text value s, or a value
   that is not text (such as bytes spelling s) *)
Text(n) == [isText |-> TRUE, s |-> n]
NonText(n) == [isText |-> FALSE, s |-> n]

\* no _check_module / _get_source result is waiting to be taken
NoCall ==
    [fn |-> "none", arg |-> Text(""), ret |-> "NoCall", err |-> NoErr,
     consulted |-> FALSE]

\* the threads that call _create_module when the host does not serialize
Threads == {"T1", "T2"}

\* a thread that has not called _create_module
IdleThread == [pc |-> "idle"]

VARIABLES
    registry,     \* _static_extension_info
    pkgContext,   \* _Py_PackageContext
    extensions,   \* the runtime's extension cache: name -> module object id
    modules,      \* sys.modules: name -> module object id
    objs,         \* the module objects allocated so far
    m_init,       \* def->m_base.m_init of every definition
    stack,        \* the create_module invocations in progress
    initCount,    \* per name, how often its init function was invoked
    firstRet,     \* per name, the object the first successful call returned
    execRes,      \* result of the last exec_module call
    crashed,      \* the process died on a null dereference
    callRes,      \* result of the last _check_module / _get_source call
    mainRet,      \* the value Py_RunMain returned
    threads,      \* per thread, its create_module invocation (unlocked runs)
    serialized,   \* the host runs one create_module invocation at a time
    lpc, config, cleared, inittab, initialized, sysPath, sysPath0, par,
    stderrLog, exitCode, ending, mainRuns, nativePar, minorGE10, finder,
           guard, status, steps

lvars == <<lpc, config, cleared, inittab, initialized, sysPath, sysPath0, par,
           stderrLog, exitCode, ending, mainRuns, nativePar, minorGE10, finder,
           guard, status, steps, mainRet>>

ldvars == <<registry, pkgContext, extensions, modules, objs, m_init, stack,
            initCount, firstRet, execRes, crashed, callRes>>

tvars == <<threads, serialized>>

vars == <<registry, pkgContext, extensions, modules, objs, m_init, stack,
          initCount, firstRet, execRes, crashed, callRes, mainRet,
          threads, serialized,
          lpc, config, cleared, inittab, initialized, sysPath, sysPath0, par,
          stderrLog, exitCode, ending, mainRuns, nativePar, minorGE10, finder,
           guard, status, steps>>

(* ====================== static_extension_utils.cpp ==================== *)

Top == stack[Len(stack)]

InFlight == {stack[k].name : k \in 1..Len(stack)}

SumInit == initCount["mathx"] + initCount["defx"] + initCount["nodef"]

\* a fresh module object, as an init function or the runtime creates it
NewModule(d) == [def |-> d, file |-> NoFile, execd |-> FALSE]

\* mutation: the cache is never hit
FindExtensionObject_Miss(n) == NullRef

\* line 35: the runtime's extension cache, looked up under (name, name)
FindExtensionObject(n) ==
    IF n \in DOMAIN extensions THEN ModRef(extensions[n]) ELSE NullRef

\* mutation: every registered name gets the first init function
LookupInit_First(n) ==
    IF n \in DOMAIN registry THEN "init_mathx" ELSE NullInit

\* lines 48-51: _static_extension_info.find(namestr)
LookupInit(n) ==
    IF n \in DOMAIN registry THEN registry[n] ELSE NullInit

\* mutation: the slot's default is taken for its value on entry
SaveContext_Default == NULL

\* line 61: oldcontext = _Py_PackageContext
SaveContext == pkgContext

\* line 62: _Py_PackageContext = namestr.c_str()
SetContext(namestr) == namestr

\* mutation: the slot is left as the init call had it
RestoreContext_Skip(fr) == pkgContext

\* line 69: _Py_PackageContext = oldcontext
RestoreContext(fr) == fr.oldcontext

\* a frame of _create_module: its locals, its position, and (ret, err, end)
\* once it has returned. Recorded for the properties: ctx0, the slot's value
\* on entry; raised, the error the init function left pending; added,
\* whether PyModule_AddObject succeeded; snap, the caches and base-init
\* pointers when the init function returned
Frame(n, o) ==
    [name |-> n, origin |-> o, pc |-> "save", initfunc |-> NullInit,
     oldcontext |-> NULL, mod |-> NullRef, ctx0 |-> pkgContext,
     ret |-> NullRef, err |-> NoErr, end |-> "running",
     raised |-> NoErr, added |-> FALSE,
     snap |-> <<extensions, modules, m_init>>]

Returned(fr, r, e, how) ==
    [fr EXCEPT !.pc = "done", !.ret = r, !.err = e, !.end = how]

\* the first module a successful call for the name returned
NoteReturn(n, r) ==
    IF n \in Names /\ r.tag = "module" /\ firstRet[n].tag = "null"
    THEN [firstRet EXCEPT ![n] = r]
    ELSE firstRet

\* lines 29-57 of _create_module: the outcome of the part before the
\* Package-Context slot is touched, for a spec with name n (NULL: the spec
\* has no name attribute); findErr: the cache lookup itself raised
Lookup(n, o, findErr) ==
    LET fr == Frame(n, o)
        cached == FindExtensionObject(n)
    IN  IF n = NULL
          THEN Returned(fr, NullRef, "AttributeError", "no_name")
        ELSE IF cached.tag = "module"
          THEN Returned(fr, cached, NoErr, "cache_hit")
        ELSE IF findErr
          THEN Returned(fr, NullRef, "FindError", "find_error")
        ELSE IF n = ""
          THEN Returned(fr, NullRef, NoErr, "empty_name")
        ELSE IF LookupInit(n) = NullInit
          THEN Returned(fr, NullRef, "ImportError", "unknown")
        ELSE [fr EXCEPT !.initfunc = LookupInit(n)]

\* _create_module is entered: by the import system (no invocation in
\* progress) or from inside a running init function, for a name that is not
\* itself being imported (the host serializes imports per name)
CreateModule(n, o, findErr) ==
    /\ ~crashed
    /\ execRes = NoExec /\ callRes = NoCall
    /\ \/ stack = << >>
       \/ /\ stack # << >>
          /\ Len(stack) < MaxDepth
          /\ Top.pc = "in_init"
          /\ n \notin InFlight
    /\ LET fr == Lookup(n, o, findErr)
       IN  /\ fr.pc = "save" => SumInit < MaxInit
           /\ stack' = Append(stack, fr)
           /\ firstRet' = NoteReturn(n, fr.ret)
    /\ UNCHANGED <<registry, pkgContext, extensions, modules, objs, m_init,
                   initCount, execRes, crashed>>
    /\ UNCHANGED <<lvars, callRes, tvars>>

SetTop(fr) == [stack EXCEPT ![Len(stack)] = fr]

\* line 61
CM_Save ==
    /\ ~crashed /\ stack # << >> /\ Top.pc = "save"
    /\ stack' = SetTop([Top EXCEPT !.oldcontext = SaveContext, !.pc = "set"])
    /\ UNCHANGED <<registry, pkgContext, extensions, modules, objs, m_init,
                   initCount, firstRet, execRes, crashed>>
    /\ UNCHANGED <<lvars, callRes, tvars>>

\* lines 62-67 (c_str() of a std::string is never null: 63-67 is dead code)
CM_Set ==
    /\ ~crashed /\ stack # << >> /\ Top.pc = "set"
    /\ pkgContext' = SetContext(Top.name)
    /\ stack' = SetTop([Top EXCEPT !.pc = "call"])
    /\ UNCHANGED <<registry, extensions, modules, objs, m_init,
                   initCount, firstRet, execRes, crashed>>
    /\ UNCHANGED <<lvars, callRes, tvars>>

\* line 68: initfunc() is entered
CM_InitCall ==
    /\ ~crashed /\ stack # << >> /\ Top.pc = "call"
    /\ initCount' = [initCount EXCEPT ![Top.name] = @ + 1]
    /\ stack' = SetTop([Top EXCEPT !.pc = "in_init"])
    /\ UNCHANGED <<registry, pkgContext, extensions, modules, objs, m_init,
                   firstRet, execRes, crashed>>
    /\ UNCHANGED <<lvars, callRes, tvars>>

\* line 68: initfunc() returns: null with an error pending, or the value
\* its kind produces
CM_InitReturn(fails, e) ==
    /\ ~crashed /\ stack # << >> /\ Top.pc = "in_init"
    /\ LET f == Top.initfunc
           k == InitKind(f)
       IN  IF fails \/ (k # "def" /\ Len(objs) >= MaxObjs)
           THEN /\ stack' = SetTop([Top EXCEPT !.mod = NullRef, !.raised = e,
                                     !.snap = <<extensions, modules, m_init>>,
                                     !.pc = "restore"])
                /\ objs' = objs
           ELSE IF k = "def"
           THEN /\ stack' = SetTop([Top EXCEPT !.mod = DefRef(DefOf(f)),
                                     !.snap = <<extensions, modules, m_init>>,
                                     !.pc = "restore"])
                /\ objs' = objs
           ELSE /\ objs' = Append(objs, NewModule(DefOf(f)))
                /\ stack' = SetTop([Top EXCEPT !.mod = ModRef(Len(objs) + 1),
                                     !.snap = <<extensions, modules, m_init>>,
                                     !.pc = "restore"])
    /\ UNCHANGED <<registry, pkgContext, extensions, modules, m_init,
                   initCount, firstRet, execRes, crashed>>
    /\ UNCHANGED <<lvars, callRes, tvars>>

\* line 69
CM_Restore ==
    /\ ~crashed /\ stack # << >> /\ Top.pc = "restore"
    /\ pkgContext' = RestoreContext(Top)
    /\ stack' = SetTop([Top EXCEPT !.pc = "finish"])
    /\ UNCHANGED <<registry, extensions, modules, objs, m_init,
                   initCount, firstRet, execRes, crashed>>
    /\ UNCHANGED <<lvars, callRes, tvars>>

\* line 76: PyModule_FromDefAndSpec(def, spec); the runtime creates a module
\* from the definition, or fails
FromDefAndSpec(fr, ok) ==
    IF ok /\ Len(objs) < MaxObjs
    THEN [heap |-> Append(objs, NewModule(fr.mod.def)),
          ret |-> ModRef(Len(objs) + 1), err |-> NoErr]
    ELSE [heap |-> objs, ret |-> NullRef, err |-> "FromDefError"]

\* mutation: the module the runtime created is dropped
ReturnFromDef_Null(fr, r) == Returned(fr, NullRef, r.err, "from_def")

\* line 76: return PyModule_FromDefAndSpec(...), whatever it gave
ReturnFromDef(fr, r) == Returned(fr, r.ret, r.err, "from_def")

\* line 85: PyModule_AddObject(mod, "__file__", path) fails for a null path
\* (the spec has no origin) or inside the runtime
AddObjectOk(fr, addFails) == fr.origin # NULL /\ ~addFails

\* lines 84-89: path = spec.origin; on success the module's __file__ is path,
\* on failure the error is cleared and the module is left as it was
AddFile(fr, added) ==
    IF added
    THEN [objs EXCEPT ![fr.mod.obj].file = fr.origin]
    ELSE objs

\* mutation: the pending error is replaced by an ImportError
InitFailed_AsImportError(fr) ==
    Returned(fr, NullRef, "ImportError", "init_failed")

\* lines 70-73: the init function returned null; its error stays pending
InitFailed(fr) == Returned(fr, NullRef, fr.raised, "init_failed")

\* mutation: the base-init pointer is not stamped
StampInit_Skip(fr, d) == m_init

\* line 90: def->m_base.m_init = initfunc
StampInit(fr, d) == [m_init EXCEPT ![d] = fr.initfunc]

\* line 95: _PyImport_FixupExtensionObject(mod, name, name, modules) enters
\* the module in a cache under name
Fixup(cache, fr) ==
    [x \in DOMAIN cache \cup {fr.name} |->
        IF x = fr.name THEN fr.mod.obj ELSE cache[x]]

\* lines 70-103: what _create_module does with the init function's result.
\* Py_DECREF(path) at lines 96 and 100 dereferences path, which is null when
\* the spec has no origin: the process dies there or happens to carry on.
CM_Finish(defOk, addFails, fixupFails, dies) ==
    /\ ~crashed /\ stack # << >> /\ Top.pc = "finish"
    /\ LET fr == Top IN
       IF fr.mod.tag = "null"
       THEN \* lines 70-73
            /\ stack' = SetTop(InitFailed(fr))
            /\ UNCHANGED <<objs, m_init, extensions, modules, firstRet, crashed>>
       ELSE IF fr.mod.tag = "def"
       THEN \* lines 74-76
            LET r == FromDefAndSpec(fr, defOk) IN
            /\ objs' = r.heap
            /\ stack' = SetTop(ReturnFromDef(fr, r))
            /\ firstRet' = NoteReturn(fr.name, r.ret)
            /\ UNCHANGED <<m_init, extensions, modules, crashed>>
       ELSE IF objs[fr.mod.obj].def = "NoDef"
       THEN \* lines 79-83
            /\ stack' = SetTop(Returned(fr, NullRef, NoErr, "no_def"))
            /\ UNCHANGED <<objs, m_init, extensions, modules, firstRet, crashed>>
       ELSE \* lines 84-102
            /\ objs' = AddFile(fr, AddObjectOk(fr, addFails))
            /\ m_init' = StampInit(fr, objs[fr.mod.obj].def)
            /\ extensions' = IF fixupFails THEN extensions
                             ELSE Fixup(extensions, fr)
            /\ modules' = IF fixupFails THEN modules ELSE Fixup(modules, fr)
            /\ IF fr.origin = NULL /\ dies
               THEN /\ crashed' = TRUE
                    /\ UNCHANGED <<stack, firstRet>>
               ELSE /\ crashed' = FALSE
                    /\ stack' = SetTop(
                         LET g == [fr EXCEPT
                                     !.added = AddObjectOk(fr, addFails)]
                         IN  IF fixupFails
                             THEN Returned(g, NullRef, "FixupError",
                                           "fixup_failed")
                             ELSE Returned(g, g.mod, NoErr, "legacy_ok"))
                    /\ firstRet' = IF fixupFails THEN firstRet
                                   ELSE NoteReturn(fr.name, fr.mod)
    /\ UNCHANGED <<registry, pkgContext, initCount, execRes>>
    /\ UNCHANGED <<lvars, callRes, tvars>>

\* the caller takes the result of a finished _create_module
CM_Return ==
    /\ ~crashed /\ stack # << >> /\ Top.pc = "done"
    /\ stack' = SubSeq(stack, 1, Len(stack) - 1)
    /\ UNCHANGED <<registry, pkgContext, extensions, modules, objs, m_init,
                   initCount, firstRet, execRes, crashed>>
    /\ UNCHANGED <<lvars, callRes, tvars>>

\* values exec_module may be handed: a module object, or something else
ExecArgs == {ModRef(i) : i \in 1..Len(objs)} \cup {NullRef}

\* mutation: the definition is run without asking whether the module has one
ExecResult_NoDefCheck(m, execFails) ==
    IF m.tag # "module"
    THEN [arg |-> m, ret |-> "None", err |-> NoErr, ran |-> FALSE]
    ELSE [arg |-> m, ret |-> "None",
          err |-> IF execFails THEN "ExecError" ELSE NoErr, ran |-> TRUE]

\* lines 108-127 of _exec_module, for argument m; execFails: PyModule_ExecDef
\* returned a negative result (an exception is pending)
ExecResult(m, execFails) ==
    IF m.tag # "module"
    THEN [arg |-> m, ret |-> "None", err |-> NoErr, ran |-> FALSE]
    ELSE IF objs[m.obj].def = "NoDef"
    THEN [arg |-> m, ret |-> "None", err |-> NoErr, ran |-> FALSE]
    ELSE [arg |-> m, ret |-> "None",
          err |-> IF execFails THEN "ExecError" ELSE NoErr, ran |-> TRUE]

ExecModule(m, execFails) ==
    /\ ~crashed /\ stack = << >> /\ execRes = NoExec /\ callRes = NoCall
    /\ execRes' = ExecResult(m, execFails)
    /\ objs' = IF execRes'.ran /\ ~execFails
               THEN [objs EXCEPT ![m.obj].execd = TRUE] ELSE objs
    /\ UNCHANGED <<registry, pkgContext, extensions, modules, m_init, stack,
                   initCount, firstRet, crashed>>
    /\ UNCHANGED <<lvars, callRes, tvars>>


\* the caller takes the result of _exec_module
ExecReturn ==
    /\ ~crashed /\ execRes # NoExec
    /\ execRes' = NoExec
    /\ UNCHANGED <<registry, pkgContext, extensions, modules, objs, m_init,
                   stack, initCount, firstRet, crashed>>
    /\ UNCHANGED <<lvars, callRes, tvars>>

\* values _check_module and _get_source may be handed
QueryArgs == {Text(n) : n \in Names} \cup {NonText("mathx"), NonText("42")}

\* mutation: the argument's type is not checked
CheckResult_Untyped(x) ==
    [fn |-> "_check_module", arg |-> x,
     ret |-> IF x.s \in DOMAIN registry THEN "True" ELSE "False",
     err |-> NoErr, consulted |-> TRUE]

\* lines 184-196 of _check_module: a TypeError for an argument that is not
\* text, else whether _static_extension_info has the name
CheckResult(x) ==
    IF ~x.isText
    THEN [fn |-> "_check_module", arg |-> x, ret |-> "NULL",
          err |-> "TypeError", consulted |-> FALSE]
    ELSE [fn |-> "_check_module", arg |-> x,
          ret |-> IF x.s \in DOMAIN registry THEN "True" ELSE "False",
          err |-> NoErr, consulted |-> TRUE]

CheckModule(x) ==
    /\ ~crashed /\ stack = << >> /\ execRes = NoExec /\ callRes = NoCall
    /\ callRes' = CheckResult(x)
    /\ UNCHANGED <<registry, pkgContext, extensions, modules, objs, m_init,
                   stack, initCount, firstRet, execRes, crashed>>
    /\ UNCHANGED <<lvars, tvars>>

\* mutation: a source text is reported for names the Registry holds
GetSourceResult_Registered(x) ==
    [fn |-> "get_source", arg |-> x,
     ret |-> IF x.s \in DOMAIN registry THEN "source" ELSE "None",
     err |-> NoErr, consulted |-> TRUE]

\* lines 129-132 of _get_source: Py_RETURN_NONE
GetSourceResult(x) ==
    [fn |-> "get_source", arg |-> x, ret |-> "None", err |-> NoErr,
     consulted |-> FALSE]

GetSource(x) ==
    /\ ~crashed /\ stack = << >> /\ execRes = NoExec /\ callRes = NoCall
    /\ callRes' = GetSourceResult(x)
    /\ UNCHANGED <<registry, pkgContext, extensions, modules, objs, m_init,
                   stack, initCount, firstRet, execRes, crashed>>
    /\ UNCHANGED <<lvars, tvars>>

\* the caller takes the result of _check_module / _get_source
QueryReturn ==
    /\ ~crashed /\ callRes # NoCall
    /\ callRes' = NoCall
    /\ UNCHANGED <<registry, pkgContext, extensions, modules, objs, m_init,
                   stack, initCount, firstRet, execRes, crashed>>
    /\ UNCHANGED <<lvars, tvars>>

\* the launcher has handed control to the runtime's main loop
MainRunning ==
    /\ lpc = "in_main" /\ config = {} /\ cleared = TRUE /\ inittab = TRUE
    /\ initialized = TRUE /\ sysPath = << >> /\ sysPath0 = << >>
    /\ par = NULL /\ stderrLog = << >> /\ exitCode = 0 /\ ending = "running"
    /\ mainRuns = 1 /\ nativePar = FALSE /\ minorGE10 = TRUE
    /\ finder = "ok" /\ guard = "noop" /\ status = StatusOk
    /\ steps = << >> /\ mainRet = 0

LoaderInit ==
    /\ registry \in RegistryChoices
    /\ pkgContext = NULL
    /\ extensions = [n \in {} |-> 0]
    /\ modules = [n \in {} |-> 0]
    /\ objs = << >>
    /\ m_init = [d \in DefIds |-> NullInit]
    /\ stack = << >>
    /\ initCount = [n \in Names |-> 0]
    /\ firstRet = [n \in Names |-> NullRef]
    /\ execRes = NoExec
    /\ crashed = FALSE
    /\ callRes = NoCall

\* every call comes from the import system's one call chain
NoThreads ==
    /\ threads = [t \in Threads |-> IdleThread]
    /\ serialized = TRUE

Init == LoaderInit /\ MainRunning /\ NoThreads

Next ==
    \/ \E n \in Names \cup {NULL}, o \in Origins, findErr \in BOOLEAN :
          CreateModule(n, o, findErr)
    \/ CM_Save
    \/ CM_Set
    \/ CM_InitCall
    \/ \E fails \in BOOLEAN, e \in InitErrors : CM_InitReturn(fails, e)
    \/ CM_Restore
    \/ \E defOk, addFails, fixupFails, dies \in BOOLEAN :
          CM_Finish(defOk, addFails, fixupFails, dies)
    \/ CM_Return
    \/ \E m \in ExecArgs, execFails \in BOOLEAN : ExecModule(m, execFails)
    \/ ExecReturn
    \/ \E x \in QueryArgs : CheckModule(x)
    \/ \E x \in QueryArgs : GetSource(x)
    \/ QueryReturn

Spec == Init /\ [][Next]_vars

(* ============ _create_module called from two threads ================= *)

\* the loader takes no lock: with ~serialized the statements of the threads'
\* invocations interleave freely; with serialized the host lets a thread
\* enter only when no other invocation is in progress
Running(t) == threads[t].pc \notin {"idle", "done"}

\* mutation: the host lets a thread enter whatever the others do
MayEnter_Always(t) == TRUE

MayEnter(t) ==
    serialized => \A u \in Threads \ {t} : ~Running(u)

SetThread(t, fr) == [threads EXCEPT ![t] = fr]

\* lines 29-57, on thread t
T_Enter(t, n, o, findErr) ==
    /\ ~crashed /\ threads[t].pc = "idle" /\ MayEnter(t)
    /\ threads' = SetThread(t, Lookup(n, o, findErr))
    /\ firstRet' = NoteReturn(n, threads'[t].ret)
    /\ UNCHANGED <<registry, pkgContext, extensions, modules, objs, m_init,
                   stack, initCount, execRes, crashed, callRes, serialized>>
    /\ UNCHANGED lvars

\* line 61, on thread t
T_Save(t) ==
    /\ ~crashed /\ threads[t].pc = "save"
    /\ threads' = SetThread(t, [threads[t] EXCEPT !.oldcontext = SaveContext,
                                                  !.pc = "set"])
    /\ UNCHANGED <<registry, pkgContext, extensions, modules, objs, m_init,
                   stack, initCount, firstRet, execRes, crashed, callRes,
                   serialized>>
    /\ UNCHANGED lvars

\* line 62, on thread t
T_Set(t) ==
    /\ ~crashed /\ threads[t].pc = "set"
    /\ pkgContext' = SetContext(threads[t].name)
    /\ threads' = SetThread(t, [threads[t] EXCEPT !.pc = "call"])
    /\ UNCHANGED <<registry, extensions, modules, objs, m_init, stack,
                   initCount, firstRet, execRes, crashed, callRes,
                   serialized>>
    /\ UNCHANGED lvars

\* line 68, on thread t: initfunc() is entered
T_InitCall(t) ==
    /\ ~crashed /\ threads[t].pc = "call"
    /\ initCount' = [initCount EXCEPT ![threads[t].name] = @ + 1]
    /\ threads' = SetThread(t, [threads[t] EXCEPT !.pc = "in_init"])
    /\ UNCHANGED <<registry, pkgContext, extensions, modules, objs, m_init,
                   stack, firstRet, execRes, crashed, callRes, serialized>>
    /\ UNCHANGED lvars

\* line 68, on thread t: initfunc() returns
T_InitReturn(t, fails, e) ==
    /\ ~crashed /\ threads[t].pc = "in_init"
    /\ LET fr == threads[t]
           k == InitKind(fr.initfunc)
           snap == <<extensions, modules, m_init>>
       IN  IF fails \/ (k # "def" /\ Len(objs) >= MaxObjs)
           THEN /\ threads' = SetThread(t, [fr EXCEPT !.mod = NullRef,
                                   !.raised = e, !.snap = snap,
                                   !.pc = "restore"])
                /\ objs' = objs
           ELSE IF k = "def"
           THEN /\ threads' = SetThread(t, [fr EXCEPT
                                   !.mod = DefRef(DefOf(fr.initfunc)),
                                   !.snap = snap, !.pc = "restore"])
                /\ objs' = objs
           ELSE /\ objs' = Append(objs, NewModule(DefOf(fr.initfunc)))
                /\ threads' = SetThread(t, [fr EXCEPT
                                   !.mod = ModRef(Len(objs) + 1),
                                   !.snap = snap, !.pc = "restore"])
    /\ UNCHANGED <<registry, pkgContext, extensions, modules, m_init, stack,
                   initCount, firstRet, execRes, crashed, callRes,
                   serialized>>
    /\ UNCHANGED lvars

\* line 69, on thread t
T_Restore(t) ==
    /\ ~crashed /\ threads[t].pc = "restore"
    /\ pkgContext' = RestoreContext(threads[t])
    /\ threads' = SetThread(t, [threads[t] EXCEPT !.pc = "finish"])
    /\ UNCHANGED <<registry, extensions, modules, objs, m_init, stack,
                   initCount, firstRet, execRes, crashed, callRes,
                   serialized>>
    /\ UNCHANGED lvars

\* lines 70-103, on thread t
T_Finish(t, defOk, addFails, fixupFails, dies) ==
    /\ ~crashed /\ threads[t].pc = "finish"
    /\ LET fr == threads[t] IN
       IF fr.mod.tag = "null"
       THEN /\ threads' = SetThread(t, InitFailed(fr))
            /\ UNCHANGED <<objs, m_init, extensions, modules, firstRet, crashed>>
       ELSE IF fr.mod.tag = "def"
       THEN LET r == FromDefAndSpec(fr, defOk) IN
            /\ objs' = r.heap
            /\ threads' = SetThread(t, ReturnFromDef(fr, r))
            /\ firstRet' = NoteReturn(fr.name, r.ret)
            /\ UNCHANGED <<m_init, extensions, modules, crashed>>
       ELSE IF objs[fr.mod.obj].def = "NoDef"
       THEN /\ threads' = SetThread(t, Returned(fr, NullRef, NoErr, "no_def"))
            /\ UNCHANGED <<objs, m_init, extensions, modules, firstRet, crashed>>
       ELSE /\ objs' = AddFile(fr, AddObjectOk(fr, addFails))
            /\ m_init' = StampInit(fr, objs[fr.mod.obj].def)
            /\ extensions' = IF fixupFails THEN extensions
                             ELSE Fixup(extensions, fr)
            /\ modules' = IF fixupFails THEN modules ELSE Fixup(modules, fr)
            /\ IF fr.origin = NULL /\ dies
               THEN /\ crashed' = TRUE
                    /\ UNCHANGED <<threads, firstRet>>
               ELSE /\ crashed' = FALSE
                    /\ threads' = SetThread(t,
                         LET g == [fr EXCEPT
                                     !.added = AddObjectOk(fr, addFails)]
                         IN  IF fixupFails
                             THEN Returned(g, NullRef, "FixupError",
                                           "fixup_failed")
                             ELSE Returned(g, g.mod, NoErr, "legacy_ok"))
                    /\ firstRet' = IF fixupFails THEN firstRet
                                   ELSE NoteReturn(fr.name, fr.mod)
    /\ UNCHANGED <<registry, pkgContext, stack, initCount, execRes, callRes,
                   serialized>>
    /\ UNCHANGED lvars

\* two threads, each about to import one extension; the host serializes
\* their calls or does not
InitThreads ==
    /\ LoaderInit /\ MainRunning
    /\ threads = [t \in Threads |-> IdleThread]
    /\ serialized \in BOOLEAN

NextThreads ==
    \E t \in Threads :
        \/ \E n \in Names \cup {NULL}, o \in Origins, findErr \in BOOLEAN :
              T_Enter(t, n, o, findErr)
        \/ T_Save(t)
        \/ T_Set(t)
        \/ T_InitCall(t)
        \/ \E fails \in BOOLEAN, e \in InitErrors : T_InitReturn(t, fails, e)
        \/ T_Restore(t)
        \/ \E defOk, addFails, fixupFails, dies \in BOOLEAN :
              T_Finish(t, defOk, addFails, fixupFails, dies)

SpecThreads == InitThreads /\ [][NextThreads]_vars

(* ========================== embedded_main.cpp ========================= *)

\* exit codes a PyStatus may carry
ExitCodes == {0, 2}

Statuses == {StatusOk, StatusError} \cup {StatusExit(c) : c \in ExitCodes}

\* results of PyImport_AppendInittab
InittabCodes == {0, -1}

\* values Py_RunMain may return
MainCodes == {0, 1}

\* FB_PAR_FILENAME: unset, or the path of the archive
ParChoices == {NULL, "/app.par"}

\* config.executable
Executable == "/app.par"

\* entries the computed module search path may hold
MaxPath == 1

PathEntries == {"/lib", "/app.par"}

BasePaths == UNION {[1..k -> PathEntries] : k \in 0..MaxPath}

\* the finder module as the launcher finds it: absent, without _initialize,
\* with a non-callable _initialize, with one that raises, or working
FinderKinds == {"absent", "no_attr", "not_callable", "raises", "ok"}

Range(q) == {q[k] : k \in 1..Len(q)}

\* lines 40-47: MaybeGetExitCode(status, config) for a status that is an
\* exception: an exit status yields its code; for any other the configuration
\* is cleared and Py_ExitStatusException ends the process
MaybeGetExitCode(st) ==
    IF st.kind = "exit"
    THEN [has |-> TRUE, code |-> st.code, clears |-> FALSE]
    ELSE [has |-> FALSE, code |-> 0, clears |-> TRUE]

\* mutation: only an exit status counts as an exception
StatusException_ExitOnly(st) == st.kind = "exit"

\* lines 61, 73, 85, 97, 106, 128: PyStatus_Exception(status)
StatusException(st) == st.kind # "ok"

\* lines 61-65 (and 73-77, 85-89, 97-101, 106-110, 128-132): what main does
\* with the status st of the step at pc here, which on success sets the
\* configuration field and goes on to pc next
AfterStatus(here, next, field, st) ==
    /\ status' = st
    /\ steps' = Append(steps, here)
    /\ IF ~StatusException(st)
       THEN /\ lpc' = next
            /\ config' = config \cup field
            /\ UNCHANGED <<cleared, exitCode, ending>>
       ELSE LET r == MaybeGetExitCode(st) IN
            /\ lpc' = "exited"
            /\ config' = config
            /\ cleared' = (cleared \/ r.clears)
            /\ exitCode' = IF r.has THEN r.code ELSE exitCode
            /\ ending' = IF r.has THEN "exit_status" ELSE "fatal"

\* lines 60-65: PyConfig_SetBytesString(program_name)
M_ProgramName(st) ==
    /\ lpc = "program_name"
    /\ AfterStatus("program_name",
                   IF minorGE10 THEN "argv" ELSE "read", {"program_name"}, st)
    /\ UNCHANGED <<inittab, initialized, sysPath, sysPath0, par, stderrLog,
                   mainRuns, nativePar, minorGE10, finder, guard>>
    /\ UNCHANGED <<ldvars, mainRet, tvars>>

AfterConfig == IF nativePar THEN "append_path" ELSE "inittab"

\* lines 68 / 83: PyConfig_SetBytesArgv, before or after PyConfig_Read
M_Argv(st) ==
    /\ lpc = "argv"
    /\ AfterStatus("argv", IF minorGE10 THEN "read" ELSE AfterConfig,
                   {"argv"}, st)
    /\ UNCHANGED <<inittab, initialized, sysPath, sysPath0, par, stderrLog,
                   mainRuns, nativePar, minorGE10, finder, guard>>
    /\ UNCHANGED <<ldvars, mainRet, tvars>>

\* lines 71 / 81: PyConfig_Read
M_Read(st) ==
    /\ lpc = "read"
    /\ AfterStatus("read", IF minorGE10 THEN AfterConfig ELSE "argv",
                   {"read"}, st)
    /\ UNCHANGED <<inittab, initialized, sysPath, sysPath0, par, stderrLog,
                   mainRuns, nativePar, minorGE10, finder, guard>>
    /\ UNCHANGED <<ldvars, mainRet, tvars>>

\* lines 95-101 (NATIVE_PAR_STYLE): append the executable to the search path
M_AppendPath(st) ==
    /\ lpc = "append_path"
    /\ AfterStatus("append_path", "run_module", {"search_path"}, st)
    /\ UNCHANGED <<inittab, initialized, sysPath, sysPath0, par, stderrLog,
                   mainRuns, nativePar, minorGE10, finder, guard>>
    /\ UNCHANGED <<ldvars, mainRet, tvars>>

\* lines 104-110 (NATIVE_PAR_STYLE): run __run_npar_main__ at startup
M_RunModule(st) ==
    /\ lpc = "run_module"
    /\ AfterStatus("run_module", "inittab", {"run_module"}, st)
    /\ UNCHANGED <<inittab, initialized, sysPath, sysPath0, par, stderrLog,
                   mainRuns, nativePar, minorGE10, finder, guard>>
    /\ UNCHANGED <<ldvars, mainRet, tvars>>

\* mutation: the result of the registration is not looked at
InittabFailed_Ignored(rc) == FALSE

\* line 121: exit_code != 0
InittabFailed(rc) == rc # 0

\* lines 119-125: PyImport_AppendInittab("_static_extension_utils", ...)
M_Inittab(rc) ==
    /\ lpc = "inittab"
    /\ steps' = Append(steps, "inittab")
    /\ inittab' = (rc = 0)
    /\ IF InittabFailed(rc)
       THEN /\ stderrLog' = Append(stderrLog, "could not update inittab")
            /\ exitCode' = rc
            /\ ending' = "inittab_failed"
            /\ lpc' = "exited"
       ELSE /\ lpc' = "initialize"
            /\ UNCHANGED <<stderrLog, exitCode, ending>>
    /\ UNCHANGED <<config, cleared, initialized, sysPath, sysPath0, par,
                   mainRuns, nativePar, minorGE10, finder, guard, status>>
    /\ UNCHANGED <<ldvars, mainRet, tvars>>

\* the module search path the runtime sets up from the configuration
InitialSysPath(base) ==
    IF "search_path" \in config THEN Append(base, Executable) ELSE base

\* lines 127-132: Py_InitializeFromConfig
M_Initialize(st, base) ==
    /\ lpc = "initialize"
    /\ AfterStatus("initialize", "par", {}, st)
    /\ initialized' = (st.kind = "ok")
    /\ sysPath' = IF st.kind = "ok" THEN InitialSysPath(base) ELSE sysPath
    /\ sysPath0' = sysPath'
    /\ UNCHANGED <<inittab, par, stderrLog, mainRuns, nativePar, minorGE10,
                   finder, guard>>
    /\ UNCHANGED <<ldvars, mainRet, tvars>>

\* line 144: PyList_Insert(sysPath, 0, par)
InsertFront(path, p) == <<p>> \o path

\* lines 135-158: with FB_PAR_FILENAME set, put it at the front of sys.path
\* and arm the guard; a failed insertion aborts
M_Par(insFails) ==
    /\ lpc = "par"
    /\ steps' = Append(steps, "par")
    /\ IF par = NULL
       THEN /\ lpc' = "import_finder"
            /\ UNCHANGED <<sysPath, guard, ending, stderrLog>>
       ELSE IF insFails
       THEN /\ lpc' = "exited"
            /\ ending' = "aborted"
            /\ stderrLog' = Append(stderrLog, "PyErr_Print")
            /\ UNCHANGED <<sysPath, guard>>
       ELSE /\ lpc' = "import_finder"
            /\ sysPath' = InsertFront(sysPath, par)
            /\ guard' = "pop"
            /\ UNCHANGED <<ending, stderrLog>>
    /\ UNCHANGED <<config, cleared, inittab, initialized, sysPath0, par,
                   exitCode, mainRuns, nativePar, minorGE10, finder, status>>
    /\ UNCHANGED <<ldvars, mainRet, tvars>>

\* lines 161-167: PyImport_ImportModule("static_extension_finder")
M_Import ==
    /\ lpc = "import_finder"
    /\ steps' = Append(steps, "import_finder")
    /\ IF finder = "absent"
       THEN /\ stderrLog' = Append(stderrLog, "could not import module")
            /\ lpc' = "guard"
       ELSE /\ lpc' = "getattr"
            /\ UNCHANGED stderrLog
    /\ UNCHANGED <<config, cleared, inittab, initialized, sysPath, sysPath0,
                   par, exitCode, ending, mainRuns, nativePar, minorGE10,
                   finder, guard, status>>
    /\ UNCHANGED <<ldvars, mainRet, tvars>>

\* lines 168-176: pinitialize = getattr(pmodule, "_initialize"); a missing or
\* non-callable attribute is reported, and main goes on to the call
M_GetAttr ==
    /\ lpc = "getattr"
    /\ steps' = Append(steps, "getattr")
    /\ stderrLog' = IF finder \in {"no_attr", "not_callable"}
                    THEN Append(stderrLog, "could not find _initialize")
                    ELSE stderrLog
    /\ lpc' = "call"
    /\ UNCHANGED <<config, cleared, inittab, initialized, sysPath, sysPath0,
                   par, exitCode, ending, mainRuns, nativePar, minorGE10,
                   finder, guard, status>>
    /\ UNCHANGED <<ldvars, mainRet, tvars>>

\* lines 177-186: retvalue = PyObject_CallObject(pinitialize, nullptr);
\* Py_DECREF(pinitialize); a null retvalue is reported; Py_DECREF(retvalue).
\* pinitialize is null when the attribute is missing and retvalue is null
\* whenever the call failed: each use of a null pointer kills the process
\* (dies1 at lines 177-178, dies2 at line 186) or happens to pass
M_Call(dies1, dies2) ==
    /\ lpc = "call"
    /\ steps' = Append(steps, "call")
    /\ IF finder = "ok"
       THEN /\ lpc' = "guard"
            /\ UNCHANGED <<stderrLog, ending>>
       ELSE IF finder = "no_attr" /\ dies1
       THEN \* lines 177-178: null pinitialize
            /\ lpc' = "exited"
            /\ ending' = "crashed"
            /\ UNCHANGED stderrLog
       ELSE \* lines 179-186: null retvalue
            /\ stderrLog' = Append(stderrLog, "could not call _initialize")
            /\ IF dies2
               THEN lpc' = "exited" /\ ending' = "crashed"
               ELSE lpc' = "guard" /\ UNCHANGED ending
    /\ UNCHANGED <<config, cleared, inittab, initialized, sysPath, sysPath0,
                   par, exitCode, mainRuns, nativePar, minorGE10, finder,
                   guard, status>>
    /\ UNCHANGED <<ldvars, mainRet, tvars>>

\* mutation: pop() without an index removes the last entry
GuardPop_Last(path) == SubSeq(path, 1, Len(path) - 1)

\* line 151: sysPath.pop(0)
GuardPop(path) == Tail(path)

\* line 188: the block ends and sysPathGuard runs: nothing, or pop(0), whose
\* failure aborts
M_Guard(popFails) ==
    /\ lpc = "guard"
    /\ steps' = Append(steps, "guard")
    /\ IF guard = "noop"
       THEN /\ lpc' = "clear"
            /\ UNCHANGED <<sysPath, ending, stderrLog>>
       ELSE IF popFails \/ sysPath = << >>
       THEN /\ lpc' = "exited"
            /\ ending' = "aborted"
            /\ stderrLog' = Append(stderrLog, "PyErr_Print")
            /\ UNCHANGED sysPath
       ELSE /\ lpc' = "clear"
            /\ sysPath' = GuardPop(sysPath)
            /\ UNCHANGED <<ending, stderrLog>>
    /\ UNCHANGED <<config, cleared, inittab, initialized, sysPath0, par,
                   exitCode, mainRuns, nativePar, minorGE10, finder, guard,
                   status>>
    /\ UNCHANGED <<ldvars, mainRet, tvars>>

\* line 190: PyConfig_Clear(&config)
M_Clear ==
    /\ lpc = "clear"
    /\ steps' = Append(steps, "clear")
    /\ cleared' = TRUE
    /\ lpc' = "run_main"
    /\ UNCHANGED <<config, inittab, initialized, sysPath, sysPath0, par,
                   stderrLog, exitCode, ending, mainRuns, nativePar,
                   minorGE10, finder, guard, status>>
    /\ UNCHANGED <<ldvars, mainRet, tvars>>

\* line 191: Py_RunMain() is entered
M_RunMain ==
    /\ lpc = "run_main"
    /\ steps' = Append(steps, "run_main")
    /\ mainRuns' = mainRuns + 1
    /\ lpc' = "in_main"
    /\ UNCHANGED <<config, cleared, inittab, initialized, sysPath, sysPath0,
                   par, stderrLog, exitCode, ending, nativePar, minorGE10,
                   finder, guard, status>>
    /\ UNCHANGED <<ldvars, mainRet, tvars>>

\* mutation: main returns 0 whatever the main loop returned
MainExit_Zero(code) == 0

\* line 191: return Py_RunMain()
MainExit(code) == code

\* line 191: Py_RunMain() returns and main returns its result
M_MainReturns(code) ==
    /\ lpc = "in_main"
    /\ steps' = Append(steps, "main_returned")
    /\ mainRet' = code
    /\ exitCode' = MainExit(code)
    /\ ending' = "main_returned"
    /\ lpc' = "exited"
    /\ UNCHANGED <<config, cleared, inittab, initialized, sysPath, sysPath0,
                   par, stderrLog, mainRuns, nativePar, minorGE10, finder,
                   guard, status>>
    /\ UNCHANGED <<ldvars, tvars>>

\* line 58: main starts with a fresh configuration; the build flags, the
\* environment and the finder module are as the run finds them
MainInit ==
    /\ lpc = "program_name" /\ config = {} /\ cleared = FALSE
    /\ inittab = FALSE /\ initialized = FALSE
    /\ sysPath = << >> /\ sysPath0 = << >>
    /\ par \in ParChoices
    /\ stderrLog = << >> /\ exitCode = 0 /\ ending = "running"
    /\ mainRuns = 0
    /\ nativePar \in BOOLEAN /\ minorGE10 \in BOOLEAN
    /\ finder \in FinderKinds
    /\ guard = "noop" /\ status = StatusOk /\ steps = << >>
    /\ mainRet = 0

InitMain == LoaderInit /\ MainInit /\ NoThreads

NextMain ==
    \/ \E st \in Statuses : M_ProgramName(st)
    \/ \E st \in Statuses : M_Argv(st)
    \/ \E st \in Statuses : M_Read(st)
    \/ \E st \in Statuses : M_AppendPath(st)
    \/ \E st \in Statuses : M_RunModule(st)
    \/ \E rc \in InittabCodes : M_Inittab(rc)
    \/ \E st \in Statuses, base \in BasePaths : M_Initialize(st, base)
    \/ \E insFails \in BOOLEAN : M_Par(insFails)
    \/ M_Import
    \/ M_GetAttr
    \/ \E dies1, dies2 \in BOOLEAN : M_Call(dies1, dies2)
    \/ \E popFails \in BOOLEAN : M_Guard(popFails)
    \/ M_Clear
    \/ M_RunMain
    \/ \E code \in MainCodes : M_MainReturns(code)

SpecMain == InitMain /\ [][NextMain]_vars

(* ============================ properties ============================== *)

Frames == {stack[k] : k \in 1..Len(stack)}

Finished == {fr \in Frames : fr.pc = "done"}

\* C1: whichever way a create_module invocation ends (cache hit, unknown
\* name, init function returned null, module-definition result, legacy
\* result, legacy result without definition, cache-insertion failure), the
\* Package-Context slot holds at return exactly the value it held when the
\* invocation started.
C1_ContextRestoredAtReturn ==
    \A fr \in Finished : pkgContext = fr.ctx0

\* a nested invocation (entered with the slot holding the outer name) whose
\* init function ran has returned, and the slot holds the outer name again
C1_Witness ==
    /\ Len(stack) = 2 /\ Top.pc = "done" /\ Top.end = "fixup_failed"
    /\ Top.ctx0 # NULL /\ Top.ctx0 # Top.name /\ pkgContext = Top.ctx0

\* once a call for a name of S has returned a module: the init function of
\* that name is not invoked again, and every call for it that returns a
\* module returns that same module
C2_Step(S) ==
    \A n \in S :
        firstRet[n].tag = "module" =>
            /\ initCount'[n] = initCount[n]
            /\ \A k \in 1..Len(stack') :
                 (stack'[k].name = n /\ stack'[k].pc = "done"
                    /\ stack'[k].ret.tag = "module")
                 => stack'[k].ret = firstRet[n]

LegacyNames == {n \in DOMAIN registry : InitKind(registry[n]) = "legacy"}

\* C2 as stated: for every name in the Registry, legacy or module-definition,
\* after a successful first create_module call a second call returns the
\* identical module object and the init function is not invoked again.
C2_Original == [][C2_Step(DOMAIN registry)]_vars

\* C2 as amended: for every registered name whose init function returns a
\* legacy module object, once a create_module call for it has succeeded,
\* every later call returns the identical module object and the init
\* function is not invoked again.
C2_LegacyIdempotent == [][C2_Step(LegacyNames)]_vars

\* a second call for the legacy name hit the cache: same object, one init
C2_Witness ==
    /\ stack # << >> /\ Top.pc = "done" /\ Top.end = "cache_hit"
    /\ Top.name = "mathx" /\ Top.ret = firstRet["mathx"]
    /\ initCount["mathx"] = 1

\* C3: for every name that is not a key of the Registry (the empty name
\* included, the Registry possibly empty) and not in the extension cache,
\* create_module fails with an ImportError (module unknown), invokes no init
\* function, does not write the Package-Context slot and leaves the module
\* cache unchanged.
C3_UnknownNameImportError ==
    \A fr \in Finished :
        (/\ fr.name \in Names
         /\ fr.name \notin DOMAIN registry
         /\ fr.end \notin {"cache_hit", "find_error"})
        => /\ fr.ret = NullRef
           /\ fr.err = "ImportError"
           /\ initCount[fr.name] = 0
           /\ pkgContext = fr.ctx0
           /\ fr.name \notin (DOMAIN modules \cup DOMAIN extensions)

\* C4: when exec_module is given a module that has a definition and
\* executing the definition fails, exec_module reports the failure: it does
\* not return the normal 'none' result.
C4_ExecFailureReported ==
    (execRes.ran /\ execRes.err = "ExecError") => execRes.ret # "None"

\* a finished invocation whose init function returned a legacy module object
\* with a definition, for a spec that has an origin
LegacyWithDef(fr) ==
    /\ fr.pc = "done"
    /\ fr.mod.tag = "module"
    /\ objs[fr.mod.obj].def # "NoDef"
    /\ fr.origin # NULL

\* C5 as stated: for a registered name whose init function returns a legacy
\* module object with definition D, create_module(spec) with spec.origin = o
\* returns that module object, with __file__ = o, with D's base-init pointer
\* equal to the Registry's init function, and the module is in the runtime's
\* module cache under spec.name.
C5_Original ==
    \A fr \in Finished :
        LegacyWithDef(fr) =>
            /\ fr.ret = fr.mod
            /\ objs[fr.mod.obj].file = fr.origin
            /\ m_init[objs[fr.mod.obj].def] = fr.initfunc
            /\ fr.name \in DOMAIN modules
            /\ modules[fr.name] = fr.mod.obj

\* C5 as amended: in that case D's base-init pointer equals the Registry's
\* init function; if the runtime's cache insertion succeeds create_module
\* returns that module object, now in the module cache and the extension
\* cache under spec.name, with __file__ = o if adding the attribute succeeded
\* and without __file__ otherwise; if the cache insertion fails create_module
\* fails.
C5_LegacyScenario ==
    \A fr \in Finished :
        LegacyWithDef(fr) =>
            /\ m_init[objs[fr.mod.obj].def] = fr.initfunc
            /\ fr.end \in {"legacy_ok", "fixup_failed"}
            /\ fr.end = "fixup_failed" => fr.ret = NullRef
            /\ fr.end = "legacy_ok" =>
                 /\ fr.ret = fr.mod
                 /\ fr.name \in DOMAIN modules
                 /\ modules[fr.name] = fr.mod.obj
                 /\ fr.name \in DOMAIN extensions
                 /\ extensions[fr.name] = fr.mod.obj
                 /\ objs[fr.mod.obj].file =
                        IF fr.added THEN fr.origin ELSE NoFile

\* create_module({name: "mathx", origin: o}) returned the legacy module
C5_Witness ==
    /\ stack # << >> /\ Top.pc = "done" /\ Top.end = "legacy_ok"
    /\ Top.name = "mathx" /\ Top.origin = "/par/mathx.so"
    /\ Top.ret.tag = "module"
    /\ objs[Top.ret.obj].file = "/par/mathx.so"
    /\ m_init["D_mathx"] = "init_mathx"
    /\ modules["mathx"] = Top.ret.obj

\* C10 as stated: for a registered name whose init function returns null,
\* create_module fails and the failure its caller sees is an ImportError; the
\* module cache is unchanged and no definition's base-init pointer is
\* modified.
C10_Original ==
    \A fr \in Finished :
        fr.end = "init_failed" =>
            /\ fr.ret = NullRef
            /\ fr.err = "ImportError"
            /\ <<extensions, modules, m_init>> = fr.snap

\* C10 as amended: create_module fails and its caller sees exactly what the
\* init function left pending (whatever its type, or no error at all); the
\* caches and the base-init pointers are as they were when the init function
\* returned.
C10_InitFailurePropagated ==
    \A fr \in Finished :
        fr.end = "init_failed" =>
            /\ fr.ret = NullRef
            /\ fr.err = fr.raised
            /\ <<extensions, modules, m_init>> = fr.snap
            /\ fr.name \notin (DOMAIN modules \cup DOMAIN extensions)

\* an init function failed with an error that is not an ImportError
C10_Witness ==
    /\ stack # << >> /\ Top.pc = "done" /\ Top.end = "init_failed"
    /\ Top.raised = "RuntimeError" /\ Top.err = "RuntimeError"
    /\ Top.ret = NullRef

FinderMessages ==
    {"could not import module", "could not find _initialize",
     "could not call _initialize"}

\* C6: after the runtime is initialized, every failure of the finder hook
\* (module cannot be imported; _initialize missing or not callable; the call
\* raises) is reported to standard error and the launcher still goes on to
\* release the configuration and enter the main loop: no finder failure ends
\* the process before the main loop is entered.
C6_FinderFailureContinues ==
    /\ ending # "crashed"
    /\ (finder # "ok" /\ lpc \in {"guard", "clear", "run_main", "in_main"})
       => Range(stderrLog) \cap FinderMessages # {}

\* the finder lookup is under way
InLookup == lpc \in {"import_finder", "getattr", "call", "guard"}

\* the finder-lookup step is over (the block of lines 134-188 was left)
StepOver ==
    \/ lpc \in {"clear", "run_main", "in_main"}
    \/ lpc = "exited" /\ ending = "main_returned"

C8_ExitCodeAfterRelease ==
    ending = "exit_status" => (exitCode = status.code /\ cleared)

\* C9: the Extension Registry module is registered in the native-module
\* table before the runtime is initialized: the runtime is initialized only
\* after registration has succeeded, and if registration fails the process
\* prints a diagnostic and exits with the registration's non-zero code
\* without initializing the runtime, invoking the finder hook or entering
\* the main loop.
C9_RegisteredBeforeInit ==
    /\ initialized => inittab
    /\ \A i \in 1..Len(steps) :
          steps[i] = "initialize" =>
              /\ inittab
              /\ \E j \in 1..(i - 1) : steps[j] = "inittab"
    /\ ending = "inittab_failed" =>
          /\ lpc = "exited"
          /\ ~inittab /\ ~initialized /\ mainRuns = 0
          /\ exitCode \in InittabCodes /\ exitCode # 0
          /\ "could not update inittab" \in Range(stderrLog)
          /\ Range(steps) \cap {"initialize", "par", "import_finder",
                                "getattr", "call", "run_main"} = {}

\* the registration failed and the process exited with its code
C9_Witness ==
    /\ ending = "inittab_failed" /\ exitCode = -1 /\ ~initialized
    /\ "could not update inittab" \in Range(stderrLog)

\* C11: for a registered name whose init function returns a legacy object
\* that has no module definition, create_module fails with an ImportError
\* and inserts nothing into the runtime's module cache under that name.
C11_NoDefImportError ==
    \A fr \in Finished :
        fr.end = "no_def" =>
            /\ fr.ret = NullRef
            /\ fr.err = "ImportError"
            /\ fr.name \notin (DOMAIN modules \cup DOMAIN extensions)

\* the Loader's state a query must leave alone
CacheState == <<registry, extensions, modules, pkgContext>>

\* every variable of the Loader but the query result
LoaderState ==
    <<registry, pkgContext, extensions, modules, objs, m_init, stack,
      initCount, firstRet, execRes, crashed>>

\* C12: _check_module answers true exactly when the queried text name is a
\* key of the Registry and false for any other text name; an argument that is
\* not text gets a TypeError without the Registry being consulted; the call
\* never changes the Registry, the module cache or the Package-Context slot.
C12_CheckModule ==
    [][(callRes = NoCall /\ callRes'.fn = "_check_module") =>
          /\ callRes'.arg.isText =>
                /\ callRes'.err = NoErr
                /\ callRes'.ret \in {"True", "False"}
                /\ (callRes'.ret = "True") <=>
                       (callRes'.arg.s \in DOMAIN registry)
          /\ ~callRes'.arg.isText =>
                /\ callRes'.ret = "NULL"
                /\ callRes'.err = "TypeError"
                /\ ~callRes'.consulted
          /\ CacheState' = CacheState]_vars

C12_Witness ==
    /\ callRes.fn = "_check_module"
    /\ callRes.arg = NonText("mathx")
    /\ callRes.err = "TypeError"
    /\ "mathx" \in DOMAIN registry
    /\ DOMAIN modules # {}

\* C15: _get_source returns None for every argument, whether or not the name
\* is registered or cached, and changes no state.
C15_GetSourceNone ==
    [][(callRes = NoCall /\ callRes'.fn = "get_source") =>
          /\ callRes'.ret = "None"
          /\ callRes'.err = NoErr
          /\ LoaderState' = LoaderState]_vars

C15_Witness ==
    /\ callRes.fn = "get_source"
    /\ callRes.arg = Text("mathx")
    /\ callRes.ret = "None"
    /\ "mathx" \in DOMAIN registry
    /\ "mathx" \in DOMAIN modules

\* the argument of exec_module is a module object that has a definition
HasDef(m) == m.tag = "module" /\ objs[m.obj].def # "NoDef"

\* C13: exec_module never changes the module cache, the Registry or the
\* Package-Context slot, whatever it is given; given something that is not a
\* module, or a module without a definition, it executes nothing, changes
\* nothing and returns None.
C13_ExecModuleInert ==
    [][(execRes = NoExec /\ execRes' # NoExec) =>
          /\ CacheState' = CacheState
          /\ m_init' = m_init
          /\ ~HasDef(execRes'.arg) =>
                /\ ~execRes'.ran
                /\ execRes'.ret = "None"
                /\ execRes'.err = NoErr
                /\ objs' = objs]_vars

C13_Witness ==
    /\ execRes.arg.tag = "module"
    /\ objs[execRes.arg.obj].def = "NoDef"
    /\ ~execRes.ran
    /\ execRes.ret = "None"

\* step a was taken, and step b after it
Before(a, b) ==
    \E i, j \in 1..Len(steps) : i < j /\ steps[i] = a /\ steps[j] = b

\* the run ended and nothing in it failed: every status was fine, the
\* registration worked, nothing was reported, nothing aborted or died
CleanRun ==
    /\ lpc = "exited"
    /\ status = StatusOk
    /\ inittab
    /\ stderrLog = << >>
    /\ ending \notin {"aborted", "crashed"}

\* C14: in a run of the launcher in which no bootstrap step failed the main
\* loop is entered exactly once, after the runtime was initialized, the
\* finder-hook block has ended and the configuration was released, and the
\* process exit code is the value the main loop returned.
C14_MainLoopOnceAtEnd ==
    /\ mainRuns <= 1
    /\ mainRuns = 1 =>
          /\ initialized /\ cleared
          /\ Before("initialize", "run_main")
          /\ Before("import_finder", "guard")
          /\ Before("guard", "clear")
          /\ Before("clear", "run_main")
    /\ CleanRun =>
          /\ mainRuns = 1
          /\ ending = "main_returned"
          /\ exitCode = mainRet

C14_Witness ==
    /\ CleanRun
    /\ par # NULL
    /\ mainRuns = 1
    /\ mainRet = 1
    /\ exitCode = 1

\* the steps of main from the registration of the module on
AfterConfigSteps ==
    {"inittab", "initialize", "par", "import_finder", "getattr", "call",
     "guard", "clear", "run_main", "main_returned"}

\* C18: when a configuration step produces an error status that carries no
\* exit code, the process ends through the fatal-status path at that step:
\* no later step (registration, initialization of the runtime, finder hook,
\* main loop) is executed.
C18_FatalStatusStops ==
    status.kind = "error" =>
        /\ lpc = "exited"
        /\ ending = "fatal"
        /\ mainRuns = 0
        /\ ~initialized
        /\ \/ steps[Len(steps)] = "initialize"
           \/ Range(steps) \cap AfterConfigSteps = {}
        /\ Range(steps) \cap (AfterConfigSteps \ {"inittab", "initialize"})
              = {}

C18_Witness ==
    /\ status.kind = "error"
    /\ steps # << >>
    /\ steps[Len(steps)] = "read"
    /\ ending = "fatal"

\* an invocation on the legacy path (lines 84-102) that could not set
\* __file__: it is at or past line 84 with a module that has a definition,
\* and the spec has no origin or PyModule_AddObject failed
FileNotSet(fr) ==
    /\ fr.mod.tag = "module"
    /\ objs[fr.mod.obj].def # "NoDef"
    /\ \/ fr.pc = "finish" /\ fr.origin = NULL
       \/ fr.pc = "done" /\ ~fr.added

\* C16: on the legacy path a failure to set __file__ (the spec has no origin
\* attribute, or adding the attribute fails) is not fatal: the error is
\* cleared and create_module still stamps the base-init pointer, inserts the
\* module in the cache and returns the module (the cache insertion itself
\* not failing).
C16_FileFailureNotFatal ==
    /\ (\E fr \in Frames : FileNotSet(fr)) => ~crashed
    /\ \A fr \in Finished :
          (FileNotSet(fr) /\ fr.end # "fixup_failed") =>
              /\ fr.end = "legacy_ok"
              /\ fr.err = NoErr
              /\ fr.ret = fr.mod
              /\ m_init[objs[fr.mod.obj].def] = fr.initfunc
              /\ fr.name \in DOMAIN modules
              /\ modules[fr.name] = fr.mod.obj
              /\ objs[fr.mod.obj].file = NoFile

\* the references an invocation that ended as fr obtained and owns: name
\* (line 29), the init function's object when it is a new module object it
\* does not hand to its caller (line 68), and path (line 84)
Owned(fr) ==
    (IF fr.end # "no_name" THEN {"name"} ELSE {})
    \cup (IF fr.mod.tag = "module" /\ fr.ret # fr.mod THEN {"mod"} ELSE {})
    \cup (IF fr.end \in {"legacy_ok", "fixup_failed"} /\ fr.origin # NULL
          THEN {"path"} ELSE {})

\* the Py_DECREFs an invocation that ended as fr executed, in order
Releases(fr) ==
    CASE fr.end = "no_name"      -> << >>                  \* line 31
      [] fr.end = "cache_hit"    -> <<"name">>             \* line 37
      [] fr.end = "find_error"   -> <<"name">>             \* line 37
      [] fr.end = "empty_name"   -> <<"name">>             \* line 43
      [] fr.end = "unknown"      -> << >>                  \* lines 53-57
      [] fr.end = "init_failed"  -> <<"name">>             \* line 71
      [] fr.end = "from_def"     -> <<"name">>             \* line 75
      [] fr.end = "no_def"       -> <<"name">>             \* line 80
      [] fr.end = "fixup_failed" -> <<"path", "name">>     \* lines 96-97
      [] fr.end = "legacy_ok"    -> <<"path", "name">>     \* lines 100-101
      [] OTHER                   -> << >>

TimesReleased(fr, r) ==
    Cardinality({k \in 1..Len(Releases(fr)) : Releases(fr)[k] = r})

\* C17: on every path through create_module each reference the Loader
\* obtained (the spec's name, the spec's origin, the init function's object
\* when it is not returned to the caller) is released exactly once: none is
\* leaked, none is released twice, none is released while null.
C17_ReferencesBalanced ==
    \A fr \in Finished :
        /\ \A r \in Owned(fr) : TimesReleased(fr, r) = 1
        /\ \A r \in Range(Releases(fr)) : r \in Owned(fr)

\* C19: for a registered name whose init function returns a module-definition
\* value, create_module returns exactly what the runtime's from-def-and-spec
\* operation gave (a module or a failure); the Loader sets no __file__,
\* stamps no base-init pointer and inserts nothing in a cache.
C19_FromDefDelegates ==
    [][(stack # << >> /\ Top.pc = "finish" /\ Top.mod.tag = "def"
          /\ Len(stack') = Len(stack)) =>
          /\ \E ok \in BOOLEAN :
                LET r == FromDefAndSpec(Top, ok) IN
                /\ Top'.ret = r.ret
                /\ Top'.err = r.err
                /\ objs' = r.heap
          /\ Top'.pc = "done"
          /\ Top'.ret.tag = "module" => objs'[Top'.ret.obj].file = NoFile
          /\ m_init' = m_init
          /\ extensions' = extensions
          /\ modules' = modules]_vars

C19_Witness ==
    /\ stack # << >> /\ Top.pc = "done" /\ Top.end = "from_def"
    /\ Top.name = "defx"
    /\ Top.ret.tag = "module"
    /\ objs[Top.ret.obj].def = "D_defx"
    /\ "defx" \notin DOMAIN modules

\* the part of an invocation in which the slot holds its name: from line 62,
\* where it is set for the init function, to line 69
InInitCall(fr) == fr.pc \in {"call", "in_init", "restore"}

\* the frames of the invocations whose init-function call is in progress
InitCalls == {k \in 1..Len(stack) : InInitCall(stack[k])}

\* the innermost of them
Innermost == CHOOSE k \in InitCalls : \A j \in InitCalls : j <= k

\* C20: with create_module serialized but nestable the slot follows a stack
\* discipline: during an init-function call it holds the name of the
\* innermost such call, so once an inner call has returned it holds the
\* outer name again for the rest of the outer init function, and whenever no
\* init-function call is in progress it holds its default value.
C20_SlotStackDiscipline ==
    pkgContext = IF InitCalls = {} THEN NULL ELSE stack[Innermost].name

C20_Witness ==
    /\ Len(stack) = 2
    /\ stack[1].pc = "in_init"
    /\ stack[2].pc = "done" /\ stack[2].end = "legacy_ok"
    /\ pkgContext = stack[1].name

\* the names whose init function is entered by the step
Invoked == {n \in Names : initCount'[n] # initCount[n]}

\* positions of _create_module past line 68's call
PastCall == {"in_init", "restore", "finish", "done"}

\* C22: a create_module invocation invokes at most one init function, at
\* most once, and only the one the Registry maps spec.name to; when that
\* function is invoked the Package-Context slot holds exactly spec.name; no
\* init function is invoked on the cache-hit, empty-name or unknown-name
\* paths.
C22_OneInitCall ==
    [][/\ Invoked # {} =>
            /\ stack # << >> /\ Len(stack') = Len(stack)
            /\ Top.pc = "call" /\ Top'.pc = "in_init"
            /\ Top.end = "running"
            /\ Invoked = {Top.name}
            /\ initCount'[Top.name] = initCount[Top.name] + 1
            /\ Top.name \in DOMAIN registry
            /\ Top.initfunc = registry[Top.name]
            /\ pkgContext = Top.name
       /\ \A k \in 1..Len(stack) :
            (k <= Len(stack') /\ stack[k].pc \in PastCall) =>
                stack'[k].pc \in PastCall
       /\ Len(stack') > Len(stack) =>
            /\ Invoked = {}
            /\ Top'.end \in {"no_name", "cache_hit", "find_error",
                             "empty_name", "unknown"} =>
                   Top'.pc = "done" /\ Top'.initfunc = NullInit]_vars

C22_Witness ==
    /\ Len(stack) = 2
    /\ Top.pc = "in_init" /\ Top.name = "defx"
    /\ Top.initfunc = "init_defx"
    /\ pkgContext = "defx"
    /\ initCount["defx"] = 1
    /\ stack[1].pc = "in_init" /\ initCount[stack[1].name] = 1

\* both threads' invocations have returned
AllDone == \A t \in Threads : threads[t].pc = "done"

\* no thread is between line 62 and line 69
NoInitCall == \A t \in Threads : ~InInitCall(threads[t])

\* two invocations for the same name both ran the init function and both
\* returned the module it gave them
BothInitialized ==
    \E t, u \in Threads :
        /\ t # u
        /\ threads[t].pc = "done" /\ threads[u].pc = "done"
        /\ threads[t].name = threads[u].name
        /\ threads[t].end = "legacy_ok" /\ threads[u].end = "legacy_ok"

\* C21 as stated, its part about serialized invocations: with the two
\* invocations serialized the slot is back at the value it held before both
\* calls, and the init function of a name is not invoked twice (read in the
\* claim's favour: by two invocations that both succeed).
C21_Original ==
    (serialized /\ AllDone) =>
        /\ pkgContext = NULL
        /\ \A t, u \in Threads :
              (/\ t # u
               /\ threads[t].name = threads[u].name
               /\ threads[t].ret.tag = "module"
               /\ threads[u].ret.tag = "module") =>
                  initCount[threads[t].name] <= 1

\* C21: the Loader takes no lock; two unserialized create_module invocations
\* can leave the slot at a value it did not hold before them and can both
\* run the init function of the same legacy name and both return its module
\* (C21_Witness). Serialized, the slot holds its default whenever no
\* init-function call is in progress, and once an invocation for a legacy
\* name has returned its module no other invocation for that name runs the
\* init function to success: it gets the cached module.
C21_SerializedSafe ==
    serialized =>
        /\ NoInitCall => pkgContext = NULL
        /\ ~BothInitialized
        /\ \A t, u \in Threads :
              (/\ t # u /\ AllDone
               /\ threads[t].name = threads[u].name
               /\ threads[t].end = "legacy_ok"
               /\ threads[u].ret.tag = "module") =>
                  /\ threads[u].ret = threads[t].ret
                  /\ initCount[threads[t].name] = 1

C21_Witness ==
    /\ ~serialized
    /\ AllDone
    /\ BothInitialized
    /\ initCount["mathx"] = 2
    /\ pkgContext # NULL

====
